---- MODULE Spec2Model ----
(***************************************************************************)
(* Per-Section generation scheduler of the writing assistant               *)
(* (src/src/writing_assistant/app/main.py, class Section, and the          *)
(* update_section handler), with the executor thread that runs             *)
(* callbacks.new_paragraph under the process-wide _paragraph_lock.         *)
(*                                                                         *)
(* The asyncio event loop runs one coroutine step at a time: every action  *)
(* is the code between two suspension points (await) of one coroutine.     *)
(* Steps made ready by the loop itself (a created task, a released lock's  *)
(* first waiter, a cancelled or completed await) run in the order they     *)
(* were made ready (loop.call_soon is FIFO): the variable ready is that    *)
(* queue. A client's request and the end of an executor call come from     *)
(* outside the loop, at any time.                                          *)
(* Texts are sequences of one-character strings, so that str.strip() is    *)
(* computed and not assumed.                                               *)
(*                                                                         *)
(* Specifications:                                                         *)
(*   Spec, FairSpec   the scheduler under update_section requests          *)
(*   DelSpec          the scheduler with delete_section requests as well   *)
(*   PatchSpec        the scheduler with update_section_data_only requests *)
(*                    as well                                              *)
(*   ReplSpec         the scheduler with clear_document and load_document  *)
(*                    requests as well                                     *)
(*   DocSpec          class Document under the handlers that build and     *)
(*                    rearrange it, with get_section_context               *)
(*   SaveSpec         class Document written and read back (to_dict,       *)
(*                    from_dict) while time passes                         *)
(*   StartSpec        class Document with the generations that its         *)
(*                    Sections are asked for                               *)
(*   GenSpec,         the /generate-text handler with                      *)
(*   FairGenSpec      callbacks.get_system_prompt and new_paragraph        *)
(* The two Sections of the scheduler are objects; the Sections of          *)
(* DocSpec and SaveSpec are the records of their fields in                 *)
(* document.sections.                                                      *)
(***************************************************************************)
EXTENDS Integers, Sequences, FiniteSets, TLC

\* Number of update_section requests issued in a run.
MaxReq == 3

Reqs == 1..MaxReq

\* The Sections of the document.
Sections == {"s1", "s2"}

\* _current_task = None
None == 0

\* Characters str.strip() removes.
Whitespace == {" "}

\* main_point values a client sends: empty, whitespace-only, a real one.
MainPoints == {<<>>, <<" ">>, <<"m">>}

\* user_text values a client sends.
UserTexts == {<<"u">>, <<"v">>}

Digit == [r \in 1..9 |-> CASE r = 1 -> "1" [] r = 2 -> "2" [] r = 3 -> "3"
                           [] r = 4 -> "4" [] r = 5 -> "5" [] r = 6 -> "6"
                           [] r = 7 -> "7" [] r = 8 -> "8" [] OTHER -> "9"]

\* What the LLM pipeline may return for the call made by request r: a text
\* that names the request, with or without surrounding whitespace.
RawResults(r) == {<<"g", Digit[r]>>, <<" ", "g", Digit[r], " ">>}

\* Sections a Document holds at most in a run.
MaxSec == 3

\* datetime.now() readings: 0..MaxClock.
MaxClock == 1

\* Section ids are numbers: uuid4() gives small ones, the ids found in
\* uploaded files are above a hundred; NoId is a missing or empty id (None, "").
NoId == 0
FileIds == {101}

\* Positions a client sends to add_section and move_section: counted from
\* the end (an inner one), the front, one past the end of any list.
Positions == {0 - 1, 0, MaxSec + 1}

Titles == {"", "T"}

\* (main_point, user_text) a client sends for a Section, and the texts a
\* generation writes.
SectionTexts == {<<<<"m">>, <<"u">>>>}
GeneratedTexts == {<<"g">>}

\* The context length the tests of /generate-text expect, in characters.
ContextLimit == 2000

\* A paragraph of n characters; its characters differ with their position.
Paragraph(n) == [i \in 1..n |-> Digit[(i % 9) + 1]]

\* prev_paragraph and next_paragraph values a client sends to /generate-text:
\* empty, short, of the limit's length, one character longer.
Paragraphs ==
    {Paragraph(n) : n \in {0, 3, ContextLimit, ContextLimit + 1}}

\* generation_mode values a client sends: the four modes, an unknown one, none.
Modes == {"ideas", "rewrite", "improve", "proofread", "summarize", ""}

VARIABLES
    main_point,      \* Section.main_point
    user_text,       \* Section.user_text
    generated_text,  \* Section.generated_text
    current_task,    \* Section._current_task: the request whose task it is, or None
    lock_holder,     \* Section._generation_lock: who holds it
    lock_waiters,    \* Section._generation_lock: FIFO queue of waiters
    paragraph_lock,  \* callbacks._paragraph_lock: the task whose thread holds it, or None
    req,             \* the update_section calls (one coroutine each)
    task,            \* the _process_generation_queue tasks, one per request at most
    exec,            \* the executor thread of each task's run_in_executor call
    ready,           \* the event loop's queue of coroutine steps that are ready to run
    writes,          \* history: the tasks that assigned generated_text, in order
    removed,         \* the Sections delete_section took out of document.sections
    document,        \* the module's Document object
    clock,           \* what datetime.now() returns
    context,         \* what the last get_section_context call returned
    handler          \* the /generate-text call that is under way or was answered last

\* The scheduler's variables and the Document's.
schedvars == <<main_point, user_text, generated_text, current_task, lock_holder,
               lock_waiters, paragraph_lock, req, task, exec, ready, writes,
               removed>>
docvars == <<document, clock, context>>
genvars == <<handler>>

vars == <<main_point, user_text, generated_text, current_task, lock_holder,
          lock_waiters, paragraph_lock, req, task, exec, ready, writes,
          removed, document, clock, context, handler>>

----------------------------------------------------------------------------
\* str.strip()

RECURSIVE LStrip(_)
LStrip(s) == IF s # <<>> /\ Head(s) \in Whitespace THEN LStrip(Tail(s)) ELSE s

RECURSIVE RStrip(_)
RStrip(s) == IF s # <<>> /\ s[Len(s)] \in Whitespace
             THEN RStrip(SubSeq(s, 1, Len(s) - 1)) ELSE s

Strip(s) == RStrip(LStrip(s))

\* The guard of _async_generate_text: not main_point or not main_point.strip()
\* (fault variant: the guard without strip())
IsBlankNoStrip(mp) == mp = <<>>
IsBlank(mp) == mp = <<>> \/ Strip(mp) = <<>>

----------------------------------------------------------------------------
\* A coroutine, as lock owner, lock waiter or ready step: a request or a task.
NoOwner == <<"none", 0>>
ReqOwner(r) == <<"req", r>>
TaskOwner(r) == <<"task", r>>

NoSection == "-"

\* pc: unused, lockwait (in the lock's queue), await (holds the lock, awaits
\* the task it cancelled), done (returned ret). awaits keeps the cancelled task.
UnusedReq == [pc |-> "unused", sec |-> NoSection, mp |-> <<>>, text |-> <<>>,
              ret |-> <<>>, awaits |-> None]

\* A task: its coroutine's position, whether a cancel() is pending, how its
\* try block ended, and (history) the Section's fields when it was created.
NoTask == [state |-> "none", must_cancel |-> FALSE, outcome |-> "none",
           before |-> <<>>]

\* Metadata(), definitions.py
NewMetadata ==
    [writing_style |-> "formal", target_audience |-> "general public",
     tone |-> "neutral", background_context |-> "none provided",
     generation_directive |-> "use good grammar.  Be concise and clear.",
     word_limit |-> "250", source |-> "", model |-> ""]

\* Document(), lines 131-136
NewDocument(now) ==
    [title |-> "", sections |-> <<>>, metadata |-> NewMetadata,
     created_at |-> now, updated_at |-> now]

NoContext == [id |-> NoId, result |-> <<>>]

\* A value the LLM pipeline returns: an object of some type with its
\* characters; a str is a text.
NoValue == [type |-> "NoneType", value |-> <<>>]

\* No /generate-text call yet. raw is what the pipeline returned, result what
\* new_paragraph did, response what the handler returned.
NoResult == [kind |-> "none", type |-> "NoneType", value |-> <<>>]
NoResponse == [generated_text |-> <<>>, error |-> "", status |-> 0]
NoCall ==
    [pc |-> "idle", text |-> <<>>, prev_paragraph |-> <<>>, next_paragraph |-> <<>>,
     generation_mode |-> "",
     args |-> [text |-> <<>>, prev_paragraph |-> <<>>, next_paragraph |-> <<>>,
               generation_mode |-> ""],
     system_prompt |-> "", raw |-> NoValue, result |-> NoResult,
     response |-> NoResponse]

Init ==
    /\ main_point = [s \in Sections |-> <<>>]
    /\ user_text = [s \in Sections |-> <<>>]
    /\ generated_text = [s \in Sections |-> <<>>]
    /\ current_task = [s \in Sections |-> None]
    /\ lock_holder = [s \in Sections |-> NoOwner]
    /\ lock_waiters = [s \in Sections |-> <<>>]
    /\ paragraph_lock = None
    /\ req = [r \in Reqs |-> UnusedReq]
    /\ task = [r \in Reqs |-> NoTask]
    /\ exec = [r \in Reqs |-> [state |-> "none", result |-> <<>>]]
    /\ ready = <<>>
    /\ writes = [s \in Sections |-> <<>>]
    /\ removed = {}
    /\ document = NewDocument(0)
    /\ clock = 0
    /\ context = NoContext
    /\ handler = NoCall

\* asyncio.Task.done()
\* (fault variant: the running task is not checked for)
TaskDoneAlways(t) == TRUE
TaskDone(t) == task[t].state \in {"finished", "cancelled"}

\* is_generating in the answer of get_generated_text, line 363 (and
\* has_current_task of get_queue_status, line 124).
IsGenerating(s) == current_task[s] # None /\ ~TaskDone(current_task[s])

\* asyncio.Lock.acquire() returns at once when the lock is free and nobody waits.
\* (fault variant: one lock for all Sections)
LockFreeShared(s) ==
    \A x \in Sections : lock_holder[x] = NoOwner /\ lock_waiters[x] = <<>>
LockFree(s) == lock_holder[s] = NoOwner /\ lock_waiters[s] = <<>>

\* The value _async_generate_text returns, which update_section puts in its response.
\* (fault variant: an empty text is returned)
ReturnedTextEmpty(s) == <<>>
ReturnedText(s) == generated_text[s]

InQueue(q, c) == \E i \in 1..Len(q) : q[i] = c

\* loop.call_soon of a coroutine's next step (a coroutine has one at most).
CallSoon(q, c) == IF InQueue(q, c) THEN q ELSE Append(q, c)

\* asyncio.Lock.release(): the first waiter is woken up; it stays in the
\* lock's queue until it runs.
WakeFirstWaiter(q, waiters) ==
    IF waiters = <<>> THEN q ELSE CallSoon(q, Head(waiters))

\* A task has ended: the request that awaits it is woken up.
WakeAwaiter(q, t) ==
    IF \E r \in Reqs : req[r].pc = "await" /\ req[r].awaits = t
    THEN CallSoon(q, ReqOwner(CHOOSE r \in Reqs : req[r].pc = "await" /\ req[r].awaits = t))
    ELSE q

----------------------------------------------------------------------------
\* Section._async_generate_text, lines 63-79: the body of `async with
\* self._generation_lock`, entered by request r (record rq); w is the lock's
\* queue and q the loop's queue without r.

\* Lines 65-68: cancel the running task and await it. Task.cancel() cancels
\* the future the task awaits, which makes the task's next step ready; a task
\* that has not run yet, or whose future is done, is only marked.
CancelAndAwait(r, rq, w, q) ==
    LET s == rq.sec
        t == current_task[s]
    IN  /\ task' = [task EXCEPT ![t].must_cancel = TRUE]
        /\ lock_holder' = [lock_holder EXCEPT ![s] = ReqOwner(r)]
        /\ lock_waiters' = [lock_waiters EXCEPT ![s] = w]
        /\ req' = [req EXCEPT ![r] = [rq EXCEPT !.pc = "await", !.awaits = t]]
        /\ ready' = CallSoon(q, TaskOwner(t))
        /\ UNCHANGED current_task

\* Lines 73-79: create the task, release the lock, return generated_text.
StartTask(r, rq, w, q) ==
    LET s == rq.sec
    IN  /\ task' = [task EXCEPT ![r] = [NoTask EXCEPT !.state = "created",
                !.before = <<main_point[s], user_text[s], generated_text[s]>>]]
        /\ current_task' = [current_task EXCEPT ![s] = r]
        /\ lock_holder' = [lock_holder EXCEPT ![s] = NoOwner]
        /\ lock_waiters' = [lock_waiters EXCEPT ![s] = w]
        /\ req' = [req EXCEPT ![r] = [rq EXCEPT !.pc = "done",
                                                !.ret = ReturnedText(s)]]
        /\ ready' = WakeFirstWaiter(CallSoon(q, TaskOwner(r)), w)

Locked(r, rq, w, q) ==
    IF current_task[rq.sec] # None /\ ~TaskDone(current_task[rq.sec])
    THEN CancelAndAwait(r, rq, w, q)
    ELSE StartTask(r, rq, w, q)

\* The request that is issued next.
NextReq(r) == req[r].pc = "unused" /\ \A q \in Reqs : q < r => req[q].pc # "unused"

\* update_section with an empty or whitespace-only main_point:
\* _async_generate_text returns self.generated_text at once (lines 50-52).
RequestBlank(r) ==
    /\ NextReq(r)
    /\ \E s \in Sections, mp \in MainPoints, text \in UserTexts :
        /\ IsBlank(mp)
        /\ req' = [req EXCEPT ![r] = [pc |-> "done", sec |-> s, mp |-> mp,
                                      text |-> text, ret |-> ReturnedText(s),
                                      awaits |-> None]]
    /\ UNCHANGED <<main_point, user_text, generated_text, current_task,
                   lock_holder, lock_waiters, paragraph_lock, task, exec,
                   ready, writes, removed, docvars, genvars>>

\* update_section with a real main_point, the lock being free: the coroutine
\* runs to its first suspension point (or to its return) in one step.
RequestLockFree(r) ==
    /\ NextReq(r)
    /\ \E s \in Sections, mp \in MainPoints, text \in UserTexts :
        /\ ~IsBlank(mp)
        /\ LockFree(s)
        /\ Locked(r, [UnusedReq EXCEPT !.sec = s, !.mp = mp, !.text = text],
                  <<>>, ready)
    /\ UNCHANGED <<main_point, user_text, generated_text, paragraph_lock,
                   exec, writes, removed, docvars, genvars>>

\* update_section with a real main_point, the lock being held: wait in line.
RequestLockBusy(r) ==
    /\ NextReq(r)
    /\ \E s \in Sections, mp \in MainPoints, text \in UserTexts :
        /\ ~IsBlank(mp)
        /\ ~LockFree(s)
        /\ req' = [req EXCEPT ![r] = [UnusedReq EXCEPT !.pc = "lockwait", !.sec = s,
                                                       !.mp = mp, !.text = text]]
        /\ lock_waiters' = [lock_waiters EXCEPT ![s] = Append(@, ReqOwner(r))]
    /\ UNCHANGED <<main_point, user_text, generated_text, current_task,
                   lock_holder, paragraph_lock, task, exec, ready, writes,
                   removed, docvars, genvars>>

\* The loop runs coroutine c next.
IsNext(c) == ready # <<>> /\ Head(ready) = c

\* The lock was released and this request, first in line, runs.
RequestLockGranted(r) ==
    /\ IsNext(ReqOwner(r))
    /\ req[r].pc = "lockwait"
    /\ Locked(r, req[r], Tail(lock_waiters[req[r].sec]), Tail(ready))
    /\ UNCHANGED <<main_point, user_text, generated_text, paragraph_lock,
                   exec, writes, removed, docvars, genvars>>

\* `await self._current_task` ends: the cancelled task has terminated.
RequestAwaitEnds(r) ==
    /\ IsNext(ReqOwner(r))
    /\ req[r].pc = "await"
    /\ StartTask(r, req[r], lock_waiters[req[r].sec], Tail(ready))
    /\ UNCHANGED <<main_point, user_text, generated_text, paragraph_lock,
                   exec, writes, removed, docvars, genvars>>

----------------------------------------------------------------------------
\* Section._process_generation_queue

\* First step of a task that was cancelled before it ran: asyncio throws
\* CancelledError into the coroutine at its start, so no line of it runs.
TaskCancelledBeforeStart(r) ==
    /\ IsNext(TaskOwner(r))
    /\ task[r].state = "created"
    /\ task[r].must_cancel
    /\ task' = [task EXCEPT ![r].state = "cancelled", ![r].must_cancel = FALSE,
                            ![r].outcome = "cancel"]
    /\ ready' = WakeAwaiter(Tail(ready), r)
    /\ UNCHANGED <<main_point, user_text, generated_text, current_task,
                   lock_holder, lock_waiters, paragraph_lock, req, exec, writes,
                   removed, docvars, genvars>>

\* First step: lines 85-99, up to the await of run_in_executor.
TaskStart(r) ==
    /\ IsNext(TaskOwner(r))
    /\ task[r].state = "created"
    /\ ~task[r].must_cancel
    /\ main_point' = [main_point EXCEPT ![req[r].sec] = req[r].mp]
    /\ user_text' = [user_text EXCEPT ![req[r].sec] = req[r].text]
    /\ task' = [task EXCEPT ![r].state = "running"]
    /\ exec' = [exec EXCEPT ![r].state = "waiting"]
    /\ ready' = Tail(ready)
    /\ UNCHANGED <<generated_text, current_task, lock_holder, lock_waiters,
                   paragraph_lock, req, writes, removed, docvars, genvars>>

\* How the await of run_in_executor ends: with CancelledError when the task
\* was cancelled meanwhile (also when the thread has already finished), else
\* with the thread's result or exception.
\* (fault variant: a finished call's result wins over the cancellation)
ResumeOutcomeIgnoreCancel(r) ==
    IF exec[r].state \in {"ok", "err"} THEN exec[r].state ELSE "cancel"
ResumeOutcome(r) ==
    IF task[r].must_cancel THEN "cancel" ELSE exec[r].state

\* generated_text after the try block, lines 100-106.
\* (fault variant: a failure is stored as the text)
TextAfterErrorStored(r, outcome) ==
    IF outcome = "ok" THEN exec[r].result
    ELSE IF outcome = "err" THEN <<"E">> ELSE generated_text[req[r].sec]
TextAfter(r, outcome) ==
    IF outcome = "ok" THEN exec[r].result ELSE generated_text[req[r].sec]

\* State of a task whose coroutine has ended with this outcome.
EndState(outcome) == IF outcome = "cancel" THEN "cancelled" ELSE "finished"

\* Second step: the await ends, lines 100-110; the lock is free, the finally
\* block clears the marker and the task ends.
TaskResumeLockFree(r) ==
    LET s == req[r].sec
        o == ResumeOutcome(r)
    IN  /\ IsNext(TaskOwner(r))
        /\ task[r].state = "running"
        /\ LockFree(s)
        /\ generated_text' = [generated_text EXCEPT ![s] = TextAfter(r, o)]
        /\ writes' = [writes EXCEPT ![s] = IF o = "ok" THEN Append(@, r) ELSE @]
        /\ current_task' = [current_task EXCEPT ![s] = None]
        /\ task' = [task EXCEPT ![r].state = EndState(o), ![r].must_cancel = FALSE,
                                ![r].outcome = o]
        /\ ready' = WakeAwaiter(Tail(ready), r)
        /\ UNCHANGED <<main_point, user_text, lock_holder, lock_waiters,
                       paragraph_lock, req, exec, removed, docvars, genvars>>

\* Second step, the lock being held: the finally block waits for it.
TaskResumeLockBusy(r) ==
    LET s == req[r].sec
        o == ResumeOutcome(r)
    IN  /\ IsNext(TaskOwner(r))
        /\ task[r].state = "running"
        /\ ~LockFree(s)
        /\ generated_text' = [generated_text EXCEPT ![s] = TextAfter(r, o)]
        /\ writes' = [writes EXCEPT ![s] = IF o = "ok" THEN Append(@, r) ELSE @]
        /\ lock_waiters' = [lock_waiters EXCEPT ![s] = Append(@, TaskOwner(r))]
        /\ task' = [task EXCEPT ![r].state = "lockwait", ![r].must_cancel = FALSE,
                                ![r].outcome = o]
        /\ ready' = Tail(ready)
        /\ UNCHANGED <<main_point, user_text, current_task, lock_holder,
                       paragraph_lock, req, exec, removed, docvars, genvars>>

\* Third step: the finally block gets the lock, lines 109-110. The lock a
\* task waits for is held by the request that awaits this very task
\* (LockWaitNeverGranted), so this step is never ready and is no disjunct
\* of Next.
TaskLockGranted(r) ==
    LET s == req[r].sec
    IN  /\ IsNext(TaskOwner(r))
        /\ task[r].state = "lockwait"
        /\ lock_waiters' = [lock_waiters EXCEPT ![s] = Tail(@)]
        /\ current_task' = [current_task EXCEPT ![s] = None]
        /\ task' = [task EXCEPT ![r].state = EndState(task[r].outcome)]
        /\ ready' = WakeAwaiter(WakeFirstWaiter(Tail(ready), Tail(lock_waiters[s])), r)
        /\ UNCHANGED <<main_point, user_text, generated_text, lock_holder,
                       paragraph_lock, req, exec, writes, removed, docvars,
                       genvars>>

----------------------------------------------------------------------------
\* The executor thread: Section.generate_text -> callbacks.new_paragraph

\* threading.Lock: acquired when no thread holds it.
\* (fault variant: the call is made without the lock)
ParagraphLockIgnored == TRUE
ParagraphLockFree == paragraph_lock = None

\* with _paragraph_lock:
ExecAcquire(r) ==
    /\ exec[r].state = "waiting"
    /\ ParagraphLockFree
    /\ paragraph_lock' = r
    /\ exec' = [exec EXCEPT ![r].state = "calling"]
    /\ UNCHANGED <<main_point, user_text, generated_text, current_task,
                   lock_holder, lock_waiters, req, task, ready, writes,
                   removed, docvars, genvars>>

\* The thread's call has ended: the task that still awaits it becomes ready
\* (a task that was cancelled awaits it no more).
ExecDone(q, r) ==
    IF task[r].state = "running" /\ ~task[r].must_cancel
    THEN CallSoon(q, TaskOwner(r)) ELSE q

\* The pipeline returns a text: new_paragraph strips it and returns it.
ExecReturn(r) ==
    /\ exec[r].state = "calling"
    /\ \E raw \in RawResults(r) :
        exec' = [exec EXCEPT ![r] = [state |-> "ok", result |-> Strip(raw)]]
    /\ paragraph_lock' = None
    /\ ready' = ExecDone(ready, r)
    /\ UNCHANGED <<main_point, user_text, generated_text, current_task,
                   lock_holder, lock_waiters, req, task, writes, removed,
                   docvars, genvars>>

\* with _paragraph_lock, line 151: the lock when the exception of thread r's
\* call leaves the block.
\* (fault variant: the lock stays with the thread)
LockAfterRaiseKept(r) == r
LockAfterRaise(r) == None

\* The pipeline raises.
ExecRaise(r) ==
    /\ exec[r].state = "calling"
    /\ exec' = [exec EXCEPT ![r].state = "err"]
    /\ paragraph_lock' = LockAfterRaise(r)
    /\ ready' = ExecDone(ready, r)
    /\ UNCHANGED <<main_point, user_text, generated_text, current_task,
                   lock_holder, lock_waiters, req, task, writes, removed,
                   docvars, genvars>>

----------------------------------------------------------------------------
\* A client sends a request.
Issue == \E r \in Reqs : RequestBlank(r) \/ RequestLockFree(r) \/ RequestLockBusy(r)

\* The event loop runs the next ready step; a thread goes on.
Progress ==
    \E r \in Reqs :
        \/ RequestLockGranted(r)
        \/ RequestAwaitEnds(r)
        \/ TaskCancelledBeforeStart(r)
        \/ TaskStart(r)
        \/ TaskResumeLockFree(r)
        \/ TaskResumeLockBusy(r)
        \/ ExecAcquire(r)
        \/ ExecReturn(r)
        \/ ExecRaise(r)

Next == Issue \/ Progress

Spec == Init /\ [][Next]_vars

\* The event loop runs every ready step, the executor runs every submitted
\* call, and the LLM call ends; clients need not send requests.
FairSpec == Spec /\ WF_vars(Progress)

----------------------------------------------------------------------------
\* The delete_section handler (DELETE /sections/{section_id}), lines 377-386,
\* next to the scheduler. The Section object outlives its removal from
\* document.sections: the coroutines that work on it keep their reference.

\* Lines 379-385: the Section is found, its unfinished task is cancelled
\* (Task.cancel() makes the task's next step ready), the Section is removed.
DeleteSection(s) ==
    /\ s \notin removed
    /\ IF current_task[s] # None /\ ~TaskDone(current_task[s])
       THEN /\ task' = [task EXCEPT ![current_task[s]].must_cancel = TRUE]
            /\ ready' = CallSoon(ready, TaskOwner(current_task[s]))
       ELSE UNCHANGED <<task, ready>>
    /\ removed' = removed \cup {s}
    /\ UNCHANGED <<main_point, user_text, generated_text, current_task,
                   lock_holder, lock_waiters, paragraph_lock, req, exec, writes,
                   docvars, genvars>>

\* A task cancelled while its finally block waits for the lock (line 109):
\* asyncio.Lock.acquire() raises CancelledError, the task leaves the lock's
\* queue and ends; line 110 is not reached, the marker stays.
TaskLockWaitCancelled(r) ==
    LET s == req[r].sec
        w == SelectSeq(lock_waiters[s], LAMBDA c : c # TaskOwner(r))
    IN  /\ IsNext(TaskOwner(r))
        /\ task[r].state = "lockwait"
        /\ task[r].must_cancel
        /\ lock_waiters' = [lock_waiters EXCEPT ![s] = w]
        /\ task' = [task EXCEPT ![r].state = "cancelled", ![r].must_cancel = FALSE]
        /\ ready' = WakeAwaiter(IF lock_holder[s] = NoOwner
                                THEN WakeFirstWaiter(Tail(ready), w)
                                ELSE Tail(ready), r)
        /\ UNCHANGED <<main_point, user_text, generated_text, current_task,
                       lock_holder, paragraph_lock, req, exec, writes, removed,
                       docvars, genvars>>

\* update_section, lines 321-322 and 336: a request for a Section that is
\* not in document.sections is answered with "Section not found".
IssueFound ==
    /\ Issue
    /\ \A r \in Reqs : NextReq(r) => req'[r].sec \notin removed

Remove ==
    \/ \E s \in Sections : DeleteSection(s)
    \/ \E r \in Reqs : TaskLockWaitCancelled(r)

DelNext == IssueFound \/ Progress \/ Remove

\* The scheduler with clients that also delete Sections.
DelSpec == Init /\ [][DelNext]_vars

----------------------------------------------------------------------------
\* The update_section_data_only handler (PATCH /sections/{section_id}),
\* lines 338-354, next to the scheduler. A call is one of the requests of
\* req; it returns in the step in which it is made (pc patched or notfound).

\* The tasks after a data-only update of Section s: lines 343-345 reach none.
\* (fault variant: the Section's unfinished task is cancelled, as
\* update_section does)
TasksAfterPatchCancelled(s) ==
    IF IsGenerating(s) THEN [task EXCEPT ![current_task[s]].must_cancel = TRUE]
    ELSE task
TasksAfterPatch(s) == task

\* Lines 341-353: the Section is found, its main_point and user_text are
\* set, its fields are returned.
PatchFound(r) ==
    /\ NextReq(r)
    /\ \E s \in Sections, t \in SectionTexts :
        /\ main_point' = [main_point EXCEPT ![s] = t[1]]
        /\ user_text' = [user_text EXCEPT ![s] = t[2]]
        /\ task' = TasksAfterPatch(s)
        /\ req' = [req EXCEPT ![r] = [pc |-> "patched", sec |-> s, mp |-> t[1],
                                      text |-> t[2], ret |-> generated_text[s],
                                      awaits |-> None]]
    /\ UNCHANGED <<generated_text, current_task, lock_holder, lock_waiters,
                   paragraph_lock, exec, ready, writes, removed, docvars,
                   genvars>>

\* Lines 341 and 354: no Section has the id, "Section not found" is returned.
PatchNotFound(r) ==
    /\ NextReq(r)
    /\ \E t \in SectionTexts :
        req' = [req EXCEPT ![r] = [UnusedReq EXCEPT !.pc = "notfound", !.mp = t[1],
                                                   !.text = t[2]]]
    /\ UNCHANGED <<main_point, user_text, generated_text, current_task,
                   lock_holder, lock_waiters, paragraph_lock, task, exec, ready,
                   writes, removed, docvars, genvars>>

Patch == \E r \in Reqs : PatchFound(r) \/ PatchNotFound(r)

\* A client sends an update_section request with a real main_point.
IssueReal == \E r \in Reqs : RequestLockFree(r) \/ RequestLockBusy(r)

PatchNext == IssueReal \/ Progress \/ Patch

\* The scheduler with clients that ask for generations and also edit
\* Sections without generation.
PatchSpec == Init /\ [][PatchNext]_vars

----------------------------------------------------------------------------
\* The handlers that replace the document, next to the scheduler. The
\* Sections of the replaced document are in no document.sections any more;
\* as objects they live on while a coroutine refers to them.

\* document.sections, in sequence
SectionList == <<"s1", "s2">>

\* clear_document, lines 496-498: Task.cancel() for the unfinished task of
\* every Section of the document, one Section after the other. tk and q are
\* the tasks and the loop's queue so far; the result is the pair of both.
RECURSIVE CancelTasks(_, _, _)
CancelTasks(secs, tk, q) ==
    IF secs = <<>> THEN <<tk, q>>
    ELSE LET t == current_task[Head(secs)]
         IN  IF Head(secs) \notin removed /\ t # None /\ ~TaskDone(t)
             THEN CancelTasks(Tail(secs), [tk EXCEPT ![t].must_cancel = TRUE],
                              CallSoon(q, TaskOwner(t)))
             ELSE CancelTasks(Tail(secs), tk, q)

\* POST /documents/clear, lines 491-502: the tasks are cancelled and a new,
\* empty Document takes the place of the old one.
ClearDocument ==
    /\ task' = CancelTasks(SectionList, task, ready)[1]
    /\ ready' = CancelTasks(SectionList, task, ready)[2]
    /\ removed' = Sections
    /\ UNCHANGED <<main_point, user_text, generated_text, current_task,
                   lock_holder, lock_waiters, paragraph_lock, req, exec, writes,
                   docvars, genvars>>

\* POST /documents/load, lines 429-457: from_dict (line 181) puts a new list
\* of new Sections in the place of the old one; the old Sections and their
\* tasks are not looked at.
LoadDocument ==
    /\ removed' = Sections
    /\ UNCHANGED <<main_point, user_text, generated_text, current_task,
                   lock_holder, lock_waiters, paragraph_lock, req, task, exec,
                   ready, writes, docvars, genvars>>

Replace ==
    \/ ClearDocument
    \/ LoadDocument
    \/ \E r \in Reqs : TaskLockWaitCancelled(r)

ReplNext == IssueFound \/ Progress \/ Replace

\* The scheduler with clients that also replace the document.
ReplSpec == Init /\ [][ReplNext]_vars

----------------------------------------------------------------------------
\* class Document, lines 130-242. A Section is a record of the fields
\* to_dict writes; a dict is a function whose domain is its keys.

\* dict.get(key, default)
Get(d, k, default) == IF k \in DOMAIN d THEN d[k] ELSE default

\* uuid.uuid4(): an id that no Section in used has. Which one it is makes no
\* difference to a Document; the k-th call gives the k-th number not in used.
Uuid4(used, k) ==
    CHOOSE n \in 1..(Cardinality(used) + k) :
        n \notin used /\ Cardinality({m \in 1..n : m \notin used}) = k

\* Section(id, main_point, user_text, order), lines 32-37; fresh is the id
\* uuid4() gives when id is None or empty.
\* _current_task of a Section of document.sections: its task, whichever it is.
RecordTask == 1

\* Whether Section.__init__ starts a generation, lines 38-41: it does not.
\* (fault variant: a Section made with a main_point or a user_text starts one,
\* as __init__ of the first revision did)
StartsGenerationWithContent(mp, ut) == mp # <<>> \/ ut # <<>>
StartsGeneration(mp, ut) == FALSE

NewSection(id, mp, ut, order, fresh) ==
    [id |-> IF id = NoId THEN fresh ELSE id, main_point |-> mp, user_text |-> ut,
     generated_text |-> <<>>, order |-> order,
     current_task |-> IF StartsGeneration(mp, ut) THEN RecordTask ELSE None]

\* reorder_sections, lines 214-216
\* (fault variant: the order values are left as they are)
ReorderSectionsSkipped(secs) == secs
ReorderSections(secs) == [i \in 1..Len(secs) |-> [secs[i] EXCEPT !.order = i - 1]]

\* list.insert(position, x): a negative position counts from the end, and a
\* position outside the list is the nearest end.
ListInsert(secs, position, x) ==
    LET n == Len(secs)
        p == IF position < 0
             THEN (IF position + n < 0 THEN 0 ELSE position + n)
             ELSE (IF position > n THEN n ELSE position)
    IN  SubSeq(secs, 1, p) \o <<x>> \o SubSeq(secs, p + 1, n)

\* add_section(position=None), lines 199-202
AddSectionLast(doc, mp, ut, fresh) ==
    [doc EXCEPT !.sections =
        Append(@, NewSection(NoId, mp, ut, Len(doc.sections), fresh))]

\* add_section(position), lines 203-206
AddSectionAt(doc, mp, ut, position, fresh) ==
    [doc EXCEPT !.sections =
        ReorderSections(ListInsert(@, position,
                                   NewSection(NoId, mp, ut, position, fresh)))]

\* delete_section, lines 209-212
DocDeleteSection(doc, id) ==
    [doc EXCEPT !.sections =
        ReorderSections(SelectSeq(@, LAMBDA sec : sec.id # id))]

\* next(i for i, s in enumerate(self.sections) if s.id == section_id):
\* the index of the first Section with the id, 0 when there is none.
IndexOf(secs, id) ==
    IF \E i \in 1..Len(secs) : secs[i].id = id
    THEN CHOOSE i \in 1..Len(secs) :
            secs[i].id = id /\ \A j \in 1..(i - 1) : secs[j].id # id
    ELSE 0

\* list.remove(x): the list without its element at index i
ListRemove(secs, i) == SubSeq(secs, 1, i - 1) \o SubSeq(secs, i + 1, Len(secs))

\* move_section, lines 218-223
DocMoveSection(doc, id, new_position) ==
    LET i == IndexOf(doc.sections, id)
    IN  IF i = 0 THEN doc
        ELSE [doc EXCEPT !.sections =
                ReorderSections(ListInsert(ListRemove(@, i), new_position, @[i]))]

\* x or y, on texts
\* (fault variant: the second text is taken)
TextOrSecond(x, y) == y
TextOr(x, y) == IF x # <<>> THEN x ELSE y

\* get_section_context, lines 228-229: no Section has the id.
\* (fault variant: the title is left out as well)
ContextNotFoundBare(doc) == <<"", <<>>, <<>>>>
ContextNotFound(doc) == <<doc.title, <<>>, <<>>>>

\* get_section_context, lines 225-242
GetSectionContext(doc, id) ==
    LET secs == doc.sections
        i == IndexOf(secs, id)
    IN  IF i = 0 THEN ContextNotFound(doc)
        ELSE <<doc.title,
               IF i > 1 THEN TextOr(secs[i - 1].generated_text, secs[i - 1].user_text)
               ELSE <<>>,
               IF i < Len(secs)
               THEN TextOr(secs[i + 1].generated_text, secs[i + 1].user_text)
               ELSE <<>>>>

\* to_dict, lines 138-163
ToDict(doc) ==
    [title |-> doc.title,
     sections |-> [i \in 1..Len(doc.sections) |->
        [id |-> doc.sections[i].id,
         main_point |-> doc.sections[i].main_point,
         user_text |-> doc.sections[i].user_text,
         generated_text |-> doc.sections[i].generated_text,
         order |-> doc.sections[i].order]],
     metadata |->
        [writing_style |-> doc.metadata.writing_style,
         target_audience |-> doc.metadata.target_audience,
         tone |-> doc.metadata.tone,
         background_context |-> doc.metadata.background_context,
         generation_directive |-> doc.metadata.generation_directive,
         word_limit |-> doc.metadata.word_limit,
         source |-> doc.metadata.source,
         model |-> doc.metadata.model],
     created_at |-> doc.created_at,
     updated_at |-> doc.updated_at]

\* How many of the first i section dicts have no id: so many uuid4() calls
\* the loop of from_dict has made when it has built the i-th Section.
MissingIds(sds, i) == Cardinality({j \in 1..i : Get(sds[j], "id", NoId) = NoId})

\* (fault variant: updated_at is read from the dict)
LoadedUpdatedAtKept(data, now) == Get(data, "updated_at", now)
\* from_dict, line 168
LoadedUpdatedAt(data, now) == now

\* The ids the section dicts have.
DictIds(sds) == {Get(sds[j], "id", NoId) : j \in 1..Len(sds)} \ {NoId}

\* from_dict, lines 165-196, at time now.
FromDict(data, now) ==
    LET md == Get(data, "metadata", <<>>)
        sds == Get(data, "sections", <<>>)
    IN  [title |-> Get(data, "title", ""),
         created_at |-> Get(data, "created_at", now),
         updated_at |-> LoadedUpdatedAt(data, now),
         metadata |->
            [writing_style |-> Get(md, "writing_style", "formal"),
             target_audience |-> Get(md, "target_audience", ""),
             tone |-> Get(md, "tone", "neutral"),
             background_context |-> Get(md, "background_context", ""),
             generation_directive |-> Get(md, "generation_directive", ""),
             word_limit |-> Get(md, "word_limit", "None"),
             source |-> Get(md, "source", ""),
             model |-> Get(md, "model", "")],
         sections |-> ReorderSections(
            [i \in 1..Len(sds) |->
                [NewSection(Get(sds[i], "id", NoId), <<>>, <<>>,
                            Get(sds[i], "order", 0),
                            Uuid4(DictIds(sds), MissingIds(sds, i)))
                 EXCEPT !.main_point = Get(sds[i], "main_point", <<>>),
                        !.user_text = Get(sds[i], "user_text", <<>>),
                        !.generated_text = Get(sds[i], "generated_text", <<>>)]])]

\* JSON files a client uploads that the program did not write: an object
\* with a title only, a document whose sections are listed against their
\* order, one of them without id and texts, and a document whose two
\* sections have the same id.
Uploads ==
    { [title |-> "T"],
      [title |-> "T", created_at |-> 0,
       metadata |-> [tone |-> "warm"],
       sections |-> << [id |-> CHOOSE id \in FileIds : TRUE, main_point |-> <<"m">>, user_text |-> <<"u">>,
                        generated_text |-> <<"g">>, order |-> 1],
                       [order |-> 0] >>],
      [title |-> "T",
       sections |-> << [id |-> CHOOSE id \in FileIds : TRUE, user_text |-> <<"u">>, order |-> 0],
                       [id |-> CHOOSE id \in FileIds : TRUE, order |-> 1] >>] }

\* The ids of the document's Sections.
PresentIds == {document.sections[i].id : i \in 1..Len(document.sections)}

\* POST /sections without position, lines 308-317: add_section is called
\* with its default texts.
HandleAddSection ==
    /\ Len(document.sections) < MaxSec
    /\ document' = AddSectionLast(document, <<>>, <<>>, Uuid4(PresentIds, 1))
    /\ context' = NoContext
    /\ UNCHANGED <<clock, schedvars, genvars>>

\* POST /sections with a position, lines 308-317
HandleInsertSection ==
    /\ Len(document.sections) < MaxSec
    /\ \E position \in Positions :
        document' = AddSectionAt(document, <<>>, <<>>, position, Uuid4(PresentIds, 1))
    /\ context' = NoContext
    /\ UNCHANGED <<clock, schedvars, genvars>>

\* DELETE /sections/{section_id}, lines 377-386, the Section being found
HandleDeleteSection ==
    /\ \E id \in PresentIds : document' = DocDeleteSection(document, id)
    /\ context' = NoContext
    /\ UNCHANGED <<clock, schedvars, genvars>>

\* PUT /sections/{section_id}/move, lines 388-391
HandleMoveSection ==
    /\ \E id \in PresentIds \cup {NoId}, position \in Positions :
        document' = DocMoveSection(document, id, position)
    /\ context' = NoContext
    /\ UNCHANGED <<clock, schedvars, genvars>>

\* update_section_data_only, lines 341-354, as what it does to the
\* document: the first Section with the id gets the texts, if there is one.
PatchSectionData(doc, id, mp, ut) ==
    LET i == IndexOf(doc.sections, id)
    IN  IF i = 0 THEN doc
        ELSE [doc EXCEPT !.sections[i].main_point = mp,
                         !.sections[i].user_text = ut]

\* PATCH /sections/{section_id}, lines 338-354: the first Section with the id
HandlePatchSection ==
    /\ \E id \in PresentIds, t \in SectionTexts :
        document' = PatchSectionData(document, id, t[1], t[2])
    /\ context' = NoContext
    /\ UNCHANGED <<clock, schedvars, genvars>>

\* A generation task of a Section of the document stores its result, line
\* 100; the task has set the Section's main_point, which is not blank.
GenerationWrites ==
    /\ \E i \in 1..Len(document.sections), text \in GeneratedTexts :
        /\ ~IsBlank(document.sections[i].main_point)
        /\ document' = [document EXCEPT !.sections[i].generated_text = text]
    /\ context' = NoContext
    /\ UNCHANGED <<clock, schedvars, genvars>>

\* POST /title, lines 303-306
HandleUpdateTitle ==
    /\ \E title \in Titles : document' = [document EXCEPT !.title = title]
    /\ context' = NoContext
    /\ UNCHANGED <<clock, schedvars, genvars>>

\* POST /documents/load, lines 429-457: an uploaded file, or the file the
\* document was saved to just before.
HandleLoadDocument ==
    /\ \E data \in Uploads \cup {ToDict(document)} :
        /\ Len(Get(data, "sections", <<>>)) <= MaxSec
        /\ document' = FromDict(data, clock)
    /\ context' = NoContext
    /\ UNCHANGED <<clock, schedvars, genvars>>

\* POST /documents/clear, lines 491-502
HandleClearDocument ==
    /\ document' = NewDocument(clock)
    /\ context' = NoContext
    /\ UNCHANGED <<clock, schedvars, genvars>>

\* get_section_context is called: by update_section, line 324, for a
\* Section of the document, or with an id that no Section may have.
HandleContext ==
    /\ \E id \in PresentIds \cup FileIds \cup {NoId} :
        context' = [id |-> id, result |-> GetSectionContext(document, id)]
    /\ UNCHANGED <<document, clock, schedvars, genvars>>

\* Time passes.
Tick ==
    /\ clock < MaxClock
    /\ clock' = clock + 1
    /\ UNCHANGED <<document, context, schedvars, genvars>>

DocNext ==
    \/ HandleAddSection
    \/ HandleInsertSection
    \/ HandleDeleteSection
    \/ HandleMoveSection
    \/ HandlePatchSection
    \/ GenerationWrites
    \/ HandleLoadDocument
    \/ HandleClearDocument
    \/ HandleContext

\* The Document under the operations that build and rearrange it.
DocSpec == Init /\ [][DocNext]_vars

SaveNext ==
    \/ HandleAddSection
    \/ HandleDeleteSection
    \/ HandlePatchSection
    \/ GenerationWrites
    \/ HandleUpdateTitle
    \/ HandleLoadDocument
    \/ HandleClearDocument
    \/ Tick

\* The Document as it is edited, saved and loaded while time passes.
SaveSpec == Init /\ [][SaveNext]_vars

\* PUT /sections/{section_id}, lines 319-336, for a Section of the document
\* and a main_point that is not blank, with the first step of the task it
\* creates (lines 76 and 85-86): the Section has a task, and the request's
\* main_point and user_text.
HandleUpdateSection ==
    /\ \E id \in PresentIds, t \in SectionTexts :
        /\ ~IsBlank(t[1])
        /\ document' = [document EXCEPT
                !.sections[IndexOf(document.sections, id)] =
                    [@ EXCEPT !.main_point = t[1], !.user_text = t[2],
                              !.current_task = RecordTask]]
    /\ context' = NoContext
    /\ UNCHANGED <<clock, schedvars, genvars>>

\* The task of a Section ends, lines 100-110: its result is stored, or the
\* text is kept when the call failed; the marker is cleared.
GenerationEnds ==
    /\ \E i \in 1..Len(document.sections), text \in GeneratedTexts, ok \in BOOLEAN :
        /\ document.sections[i].current_task # None
        /\ document' = [document EXCEPT
                !.sections[i].generated_text = IF ok THEN text ELSE @,
                !.sections[i].current_task = None]
    /\ context' = NoContext
    /\ UNCHANGED <<clock, schedvars, genvars>>

StartNext ==
    \/ HandleAddSection
    \/ HandleInsertSection
    \/ HandleDeleteSection
    \/ HandlePatchSection
    \/ HandleLoadDocument
    \/ HandleUpdateSection
    \/ GenerationEnds

\* The Document with the generations its Sections are asked for.
StartSpec == Init /\ [][StartNext]_vars

----------------------------------------------------------------------------
\* callbacks.get_system_prompt and the /generate-text handler. An instruction
\* is named by its first sentence.

IdeasInstruction ==
    "Analyze the current paragraph and generate 4-6 specific, actionable improvement suggestions."
RewriteInstruction ==
    "Completely rewrite the current paragraph to maximize clarity, engagement, and impact."
ImproveInstruction ==
    "Enhance the provided current while preserving its essential structure and meaning."
ProofreadInstruction ==
    "Proofread the current paragraph for errors and clarity issues."
DefaultInstruction ==
    "Rewrite or improve the provided paragraph to enhance its effectiveness."

\* get_system_prompt, core/callbacks.py lines 11-111
\* (fault variant: an unknown mode gets the instruction of rewrite)
GetSystemPromptRewrite(generation_mode) ==
    CASE generation_mode = "ideas" -> IdeasInstruction
      [] generation_mode = "improve" -> ImproveInstruction
      [] generation_mode = "proofread" -> ProofreadInstruction
      [] OTHER -> RewriteInstruction
\* (fault variant: improve is taken for rewrite)
GetSystemPromptMerged(generation_mode) ==
    CASE generation_mode = "ideas" -> IdeasInstruction
      [] generation_mode \in {"rewrite", "improve"} -> RewriteInstruction
      [] generation_mode = "proofread" -> ProofreadInstruction
      [] OTHER -> DefaultInstruction
GetSystemPrompt(generation_mode) ==
    CASE generation_mode = "ideas" -> IdeasInstruction
      [] generation_mode = "rewrite" -> RewriteInstruction
      [] generation_mode = "improve" -> ImproveInstruction
      [] generation_mode = "proofread" -> ProofreadInstruction
      [] OTHER -> DefaultInstruction

\* The thread of the event loop, as holder of _paragraph_lock.
LoopThread == 0 - 1

\* What str(e) is for the exception the pipeline raises.
ErrorText == "LLM Error"

\* The value the handler returns, lines 526-529: the dict with the text, or
\* the pair of the dict with the error and 500.
\* (fault variant: a failure is answered like an empty text)
ResponseOfHidingError(result) ==
    IF result.kind = "returned"
    THEN [generated_text |-> result.value, error |-> "", status |-> 0]
    ELSE NoResponse
ResponseOf(result) ==
    IF result.kind = "returned"
    THEN [generated_text |-> result.value, error |-> "", status |-> 0]
    ELSE [generated_text |-> <<>>, error |-> ErrorText, status |-> 500]

\* POST /generate-text, lines 504-524, up to the pipeline call inside
\* new_paragraph: the handler passes its parameters on as they are;
\* new_paragraph takes _paragraph_lock and picks the instruction. The call
\* is made on the event loop's thread, so no other handler runs meanwhile.
GenerateTextCall ==
    /\ handler.pc # "calling"
    /\ ParagraphLockFree
    /\ \E text \in UserTexts, prev \in Paragraphs, next \in Paragraphs, mode \in Modes :
        handler' = [NoCall EXCEPT
            !.pc = "calling", !.text = text, !.prev_paragraph = prev,
            !.next_paragraph = next, !.generation_mode = mode,
            !.args = [text |-> text, prev_paragraph |-> prev,
                      next_paragraph |-> next, generation_mode |-> mode],
            !.system_prompt = GetSystemPrompt(mode)]
    /\ paragraph_lock' = LoopThread
    /\ UNCHANGED <<main_point, user_text, generated_text, current_task,
                   lock_holder, lock_waiters, req, task, exec, ready, writes,
                   removed, docvars>>

\* What the pipeline may return to /generate-text: texts with and without
\* surrounding whitespace, empty and blank ones, and a dict.
PipelineResults ==
    {[type |-> "str", value |-> raw] :
        raw \in RawResults(1) \cup {<<>>, <<" ">>, <<" ", "g", " ", "h">>}}
    \cup {[type |-> "dict", value |-> <<" ", "g", " ">>]}

\* new_paragraph, lines 165-171: a str is stripped, any other value is
\* returned as it is.
\* (fault variant: the value is returned as the pipeline gave it)
CleanedResultSkipped(value) == value
CleanedResult(value) ==
    IF value.type = "str" THEN [value EXCEPT !.value = Strip(@)] ELSE value

\* The handler's return for what new_paragraph did with the pipeline's raw
\* value, the lock being released.
GenerateTextEnds(raw, result) ==
    /\ handler.pc = "calling"
    /\ handler' = [handler EXCEPT !.pc = "responded", !.raw = raw,
                                  !.result = result,
                                  !.response = ResponseOf(result)]
    /\ paragraph_lock' = None
    /\ UNCHANGED <<main_point, user_text, generated_text, current_task,
                   lock_holder, lock_waiters, req, task, exec, ready, writes,
                   removed, docvars>>

\* The pipeline returns a value, which new_paragraph cleans up (lines
\* 163-171); the handler returns it, line 526.
GenerateTextReturns ==
    \E raw \in PipelineResults :
        GenerateTextEnds(raw, [kind |-> "returned",
                               type |-> CleanedResult(raw).type,
                               value |-> CleanedResult(raw).value])

\* The call raises; the handler catches the exception, lines 527-529.
GenerateTextRaises ==
    GenerateTextEnds(NoValue, [kind |-> "raised", type |-> "NoneType", value |-> <<>>])

GenProgress == GenerateTextReturns \/ GenerateTextRaises

GenNext == GenerateTextCall \/ GenProgress

\* The /generate-text operation.
GenSpec == Init /\ [][GenNext]_vars

\* The pipeline call comes to an end.
FairGenSpec == GenSpec /\ WF_vars(GenProgress)

----------------------------------------------------------------------------
\* Vocabulary of the properties

SectionOf(r) == req[r].sec

\* A task that was created and whose coroutine has not ended.
Active(r) == task[r].state \in {"created", "running", "lockwait"}

\* A task some later request has cancelled.
Superseded(t) == \E r \in Reqs : req[r].awaits = t

\* Empty or made of whitespace only.
AllWhitespace(mp) == \A i \in 1..Len(mp) : mp[i] \in Whitespace

\* Request r returns in this step.
Returns(r) == req[r].pc # "done" /\ req'[r].pc = "done"

\* No coroutine is suspended and no thread is running.
Settled ==
    /\ \A r \in Reqs : req[r].pc \in {"unused", "done"}
    /\ \A r \in Reqs : ~Active(r)

\* How often task r assigned generated_text.
WritesBy(r, s) == Cardinality({i \in 1..Len(writes[s]) : writes[s][i] = r})

TypeOK ==
    /\ \A s \in Sections : current_task[s] \in Reqs \cup {None}
    /\ paragraph_lock \in Reqs \cup {None, LoopThread}
    /\ \A r \in Reqs :
        /\ req[r].pc \in {"unused", "lockwait", "await", "done", "patched",
                         "notfound"}
        /\ task[r].state \in {"none", "created", "running", "lockwait",
                              "finished", "cancelled"}
        /\ exec[r].state \in {"none", "waiting", "calling", "ok", "err"}

\* A task in the lock's queue waits for the request that awaits it.
LockWaitNeverGranted ==
    \A r \in Reqs :
        task[r].state = "lockwait" =>
            /\ task[r].outcome = "cancel"
            /\ \E q \in Reqs : /\ req[q].pc = "await" /\ req[q].awaits = r
                               /\ lock_holder[SectionOf(r)] = ReqOwner(q)
            /\ ~InQueue(ready, TaskOwner(r))

----------------------------------------------------------------------------
\* C1. Cancel-and-replace: when a request r2 supersedes the unfinished task
\* of a request r1 for the same Section, everything settles, and then, r2
\* being the Section's last request and its generation having succeeded,
\* generated_text is r2's result, written once by r2's task and never by r1's.
C1_Outcome(r1, r2) ==
    LET s == SectionOf(r2)
    IN  /\ Settled
        /\ ( (/\ \A q \in Reqs : (q > r2 /\ req[q].pc # "unused") => SectionOf(q) # s
              /\ exec[r2].state = "ok")
             => /\ generated_text[s] = exec[r2].result
                /\ WritesBy(r2, s) = 1
                /\ WritesBy(r1, s) = 0 )

C1_CancelAndReplace ==
    \A r1 \in Reqs : \A r2 \in Reqs :
        (req[r2].pc = "await" /\ req[r2].awaits = r1 /\ req[r1].text # req[r2].text)
            ~> C1_Outcome(r1, r2)

\* C2. The wait of a request for the task it cancelled ends: the request
\* starts its task, releases the Section lock and returns.
C2_CancelWaitEnds ==
    \A r \in Reqs :
        (req[r].pc = "await")
            ~> (req[r].pc = "done" /\ lock_holder[SectionOf(r)] = NoOwner)

\* C3. Each Section has at most one task that is created and not ended, and a
\* task is created only when the task recorded before it has ended.
C3_AtMostOne ==
    \A s \in Sections :
        Cardinality({r \in Reqs : SectionOf(r) = s /\ Active(r)}) <= 1

C3_StartsAfterEnd ==
    \A r \in Reqs :
        (task[r].state = "none" /\ task'[r].state = "created") =>
            LET s == req'[r].sec
            IN  /\ current_task[s] # None =>
                    task[current_task[s]].state \in {"finished", "cancelled"}
                /\ \A q \in Reqs : SectionOf(q) = s => ~Active(q)

C3_OneTaskPerSection == []C3_AtMostOne /\ [][C3_StartsAfterEnd]_vars

C3_Witness ==
    \E r1 \in Reqs : \E r2 \in Reqs :
        /\ SectionOf(r1) = SectionOf(r2)
        /\ req[r2].awaits = r1
        /\ task[r1].state = "cancelled"
        /\ task[r2].state = "running"

\* C4. A superseded task never assigns generated_text afterwards, also when
\* its external call has run to completion.
C4_SupersededNeverWrites ==
    [][\A t \in Reqs :
          Superseded(t) =>
              /\ WritesBy(t, SectionOf(t))' = WritesBy(t, SectionOf(t))
              /\ (task[t].state # task'[t].state =>
                    generated_text'[SectionOf(t)] = generated_text[SectionOf(t)])]_vars

C4_Witness ==
    \E t \in Reqs :
        /\ Superseded(t)
        /\ exec[t].state = "ok"
        /\ task[t].outcome = "cancel"
        /\ WritesBy(t, SectionOf(t)) = 0

\* C5. A request returns while the task it started has not yet run, and it
\* returns generated_text as it stands, which the return leaves unchanged.
C5_ReturnsStale ==
    [][\A r \in Reqs :
          (Returns(r) /\ task'[r].state # "none") =>
              /\ task'[r].state = "created"
              /\ exec'[r].state = "none"
              /\ req'[r].ret = generated_text[req'[r].sec]
              /\ generated_text' = generated_text]_vars

C5_Witness ==
    \E r \in Reqs :
        /\ req[r].pc = "done"
        /\ task[r].state = "created"
        /\ req[r].ret # <<>>
        /\ req[r].ret = generated_text[SectionOf(r)]

\* C6. When a request with a real main_point returns, the Section's
\* main_point and user_text are the request's.
C6_FieldsSetAtReturn ==
    [][\A r \in Reqs :
          (Returns(r) /\ ~AllWhitespace(req'[r].mp)) =>
              /\ main_point'[req'[r].sec] = req'[r].mp
              /\ user_text'[req'[r].sec] = req'[r].text]_vars

\* C7. A request with an empty or whitespace-only main_point returns the
\* existing generated_text at once and changes nothing: no task, no external
\* call, no cancellation, no field, no marker, no lock.
C7_BlankIsNoOp ==
    [][\A r \in Reqs :
          (req[r].pc = "unused" /\ req'[r].pc # "unused" /\ AllWhitespace(req'[r].mp)) =>
              /\ req'[r].pc = "done"
              /\ req'[r].ret = generated_text[req'[r].sec]
              /\ UNCHANGED <<main_point, user_text, generated_text, current_task,
                             lock_holder, lock_waiters, paragraph_lock, task,
                             exec, ready, writes>>]_vars

C7_Witness ==
    \E r \in Reqs :
        /\ req[r].pc = "done"
        /\ req[r].mp = <<" ">>
        /\ task[r].state = "none"
        /\ current_task[SectionOf(r)] # None
        /\ task[current_task[SectionOf(r)]].state = "running"
        /\ ~task[current_task[SectionOf(r)]].must_cancel

\* C8. When the external call raises (and the task was not cancelled), the
\* task ends normally, generated_text keeps its value, the marker is cleared
\* and the lock is free, so that a later request starts a new task.
C8_FailureKeepsText ==
    [][\A r \in Reqs :
          (/\ task[r].state = "running" /\ task'[r].state # "running"
           /\ exec[r].state = "err" /\ ~task[r].must_cancel) =>
              LET s == SectionOf(r)
              IN  /\ generated_text'[s] = generated_text[s]
                  /\ writes'[s] = writes[s]
                  /\ task'[r].state = "finished"
                  /\ current_task'[s] = None
                  /\ lock_holder'[s] = NoOwner /\ lock_waiters'[s] = <<>>]_vars

C8_Witness ==
    \E r \in Reqs : \E q \in Reqs :
        /\ q > r /\ SectionOf(q) = SectionOf(r)
        /\ task[r].state = "finished" /\ task[r].outcome = "err"
        /\ generated_text[SectionOf(r)] # <<>>
        /\ task[q].state = "created"
        /\ req[q].awaits = None

\* C9. A task that is cancelled leaves main_point, user_text and
\* generated_text as they were when it was created.
C9_CancelledLeavesFields ==
    [][\A r \in Reqs :
          (task[r].outcome # "cancel" /\ task'[r].outcome = "cancel") =>
              LET s == SectionOf(r)
              IN  <<main_point'[s], user_text'[s], generated_text'[s]>>
                      = task[r].before]_vars

\* C10. A Section's lock is never held while an external call of that
\* Section (the pipeline call of new_paragraph, run by run_in_executor) is in
\* progress.
C10_LockNotHeldAcrossCall ==
    \A s \in Sections :
        lock_holder[s] # NoOwner =>
            \A r \in Reqs :
                SectionOf(r) = s => exec[r].state # "calling"

----------------------------------------------------------------------------
\* C11. delete_section cancels the Section's unfinished task in the step that
\* removes the Section, and once the Section is removed no step writes its
\* main_point, user_text or generated_text and no task is created for it,
\* whatever update_section requests are under way.
C11_CancelledAtRemoval ==
    \A s \in Sections :
        (s \notin removed /\ s \in removed' /\ current_task[s] # None
            /\ ~TaskDone(current_task[s]))
        => (task'[current_task[s]].must_cancel
            \/ task'[current_task[s]].outcome = "cancel")

C11_QuietAfterRemoval ==
    \A s \in removed :
        /\ main_point'[s] = main_point[s]
        /\ user_text'[s] = user_text[s]
        /\ generated_text'[s] = generated_text[s]
        /\ \A r \in Reqs : (task[r].state = "none" /\ task'[r].state # "none")
                              => req'[r].sec # s

C11_DeleteStopsGeneration ==
    [][C11_CancelledAtRemoval /\ C11_QuietAfterRemoval]_vars

\* C12. The current-task marker of a Section is cleared only in the step in
\* which the very task it records ends; a task that finishes or is cancelled
\* while the marker records another task leaves the marker as it is.
C12_Ends(r) == Active(r) /\ task'[r].state \in {"finished", "cancelled"}

C12_ClearsOwnMarker ==
    \A s \in Sections :
        /\ (current_task[s] # None /\ current_task'[s] = None)
            => C12_Ends(current_task[s])
        /\ \A r \in Reqs : (C12_Ends(r) /\ current_task[s] # r)
                              => current_task'[s] = current_task[s]

C12_MarkerClearedByOwner == [][C12_ClearsOwnMarker]_vars

\* A task has ended and its Section's marker records a newer, unfinished task.
C12_Witness ==
    \E r1 \in Reqs, r2 \in Reqs :
        /\ r1 < r2
        /\ task[r1].state \in {"finished", "cancelled"}
        /\ SectionOf(r1) = SectionOf(r2)
        /\ current_task[SectionOf(r2)] = r2
        /\ Active(r2)

\* C18. At most one new_paragraph call is inside the region protected by
\* _paragraph_lock at any time, whatever Sections the calls are for, and the
\* lock is held by the thread of that call.
C18_OneCallInLock ==
    /\ Cardinality({r \in Reqs : exec[r].state = "calling"}) <= 1
    /\ \A r \in Reqs : exec[r].state = "calling" => paragraph_lock = r

\* Calls for two Sections are submitted: one is inside, the other waits.
C18_Witness ==
    \E r1 \in Reqs, r2 \in Reqs :
        /\ SectionOf(r1) # SectionOf(r2)
        /\ exec[r1].state = "calling"
        /\ exec[r2].state = "waiting"

\* C19. A step of an update_section request for Section X leaves every other
\* Section Y as it is: Y's main_point, user_text, generated_text, marker, lock
\* and lock queue, and Y's tasks (none cancelled, none created); the request
\* awaits only a task of X and waits for a lock only when X's lock is taken.
C19_RequestStep(r) == req'[r] # req[r]

C19_OtherSectionUntouched ==
    \A r \in Reqs : C19_RequestStep(r) =>
        LET x == req'[r].sec
        IN  /\ \A y \in Sections \ {x} :
                /\ main_point'[y] = main_point[y]
                /\ user_text'[y] = user_text[y]
                /\ generated_text'[y] = generated_text[y]
                /\ current_task'[y] = current_task[y]
                /\ lock_holder'[y] = lock_holder[y]
                /\ lock_waiters'[y] = lock_waiters[y]
                /\ \A t \in Reqs : (t # r /\ req[t].sec = y) => task'[t] = task[t]
            /\ req'[r].awaits # None => req[req'[r].awaits].sec = x
            /\ (req[r].pc = "unused" /\ req'[r].pc = "lockwait")
                => (lock_holder[x] # NoOwner \/ lock_waiters[x] # <<>>)

C19_SectionsIndependent == [][C19_OtherSectionUntouched]_vars

\* A request for one Section has started its task while a task of the other
\* Section is under way.
C19_Witness ==
    \E r1 \in Reqs, r2 \in Reqs :
        /\ r1 < r2
        /\ SectionOf(r1) # SectionOf(r2)
        /\ task[r1].state = "running"
        /\ req[r2].pc = "done"
        /\ Active(r2)

----------------------------------------------------------------------------
\* Properties of the Document

\* The Section at index i is the only one with its id.
IdOnce(i) ==
    \A j \in 1..Len(document.sections) :
        document.sections[j].id = document.sections[i].id => j = i

C14_Paragraph(i) ==
    IF i < 1 \/ i > Len(document.sections) THEN <<>>
    ELSE IF document.sections[i].generated_text # <<>>
         THEN document.sections[i].generated_text
         ELSE document.sections[i].user_text

C14_ContextOfNeighbours ==
    \A i \in 1..Len(document.sections) :
        IdOnce(i) =>
            LET expected == <<document.title, C14_Paragraph(i - 1), C14_Paragraph(i + 1)>>
            IN  /\ GetSectionContext(document, document.sections[i].id) = expected
                /\ context.id = document.sections[i].id => context.result = expected

\* The context of the middle one of three Sections was assembled: before it a
\* Section with a generated text, after it one with a user text only.
C14_Witness ==
    /\ Len(document.sections) = 3
    /\ IdOnce(2)
    /\ context.id = document.sections[2].id
    /\ document.sections[1].generated_text # <<>>
    /\ document.sections[1].user_text # <<>>
    /\ document.sections[3].generated_text = <<>>
    /\ document.sections[3].user_text # <<>>
    /\ context.result = <<document.title, document.sections[1].generated_text,
                          document.sections[3].user_text>>

----------------------------------------------------------------------------
\* Properties of /generate-text

\* The last n characters of a text, and the first n; the text itself when
\* it has no more than n.
LastChars(text, n) ==
    IF Len(text) > n THEN SubSeq(text, Len(text) - n + 1, Len(text)) ELSE text
FirstChars(text, n) == IF Len(text) > n THEN SubSeq(text, 1, n) ELSE text

KnownModes == {"ideas", "rewrite", "improve", "proofread"}

\* C15. The prev_paragraph that /generate-text passes to new_paragraph is
\* the last 2000 characters of the one it received, the next_paragraph the
\* first 2000 characters; a paragraph of 2000 characters or less is passed
\* as it is.
C15_ContextTruncated ==
    handler.pc # "idle" =>
        /\ handler.args.prev_paragraph = LastChars(handler.prev_paragraph, ContextLimit)
        /\ handler.args.next_paragraph = FirstChars(handler.next_paragraph, ContextLimit)

C17_ResponseMatches ==
    IF handler.result.kind = "returned"
    THEN /\ handler.response.generated_text = handler.result.value
         /\ handler.response.error = ""
         /\ handler.response.status = 0
    ELSE /\ handler.result.kind = "raised"
         /\ handler.response.error # ""
         /\ handler.response.status >= 400

C17_HandlerFrame ==
    handler' # handler =>
        /\ document' = document
        /\ main_point' = main_point
        /\ user_text' = user_text
        /\ generated_text' = generated_text
        /\ current_task' = current_task

----------------------------------------------------------------------------
\* Properties of the Document and its generations

\* Texts a Section may be made with: none, and a client's.
C21_Texts == SectionTexts \cup {<<<<>>, <<>>>>}

\* The Sections of doc that have a task.
WithTask(doc) == {i \in 1..Len(doc.sections) : doc.sections[i].current_task # None}

\* A Section as its constructor leaves it: no task, no generated text.
C21_Idle(sec) == sec.current_task = None /\ sec.generated_text = <<>>

\* The Section constructor, add_section (appending, inserting) with any
\* texts and from_dict, applied to the document as it stands, give Sections
\* without a task, and give no Section a text that a call would have made.
C21_ConstructionStartsNothing ==
    LET fresh == Uuid4(PresentIds, 1)
        n == Len(document.sections)
    IN  /\ \A t \in C21_Texts, id \in FileIds \cup {NoId} :
            C21_Idle(NewSection(id, t[1], t[2], n, fresh))
        /\ \A t \in C21_Texts :
            LET doc == AddSectionLast(document, t[1], t[2], fresh)
            IN  /\ C21_Idle(doc.sections[n + 1])
                /\ Cardinality(WithTask(doc)) = Cardinality(WithTask(document))
        /\ \A t \in C21_Texts, position \in Positions :
            LET doc == AddSectionAt(document, t[1], t[2], position, fresh)
            IN  /\ C21_Idle(doc.sections[IndexOf(doc.sections, fresh)])
                /\ Cardinality(WithTask(doc)) = Cardinality(WithTask(document))
        /\ \A data \in Uploads \cup {ToDict(document)} :
            LET doc == FromDict(data, clock)
                sds == Get(data, "sections", <<>>)
            IN  /\ WithTask(doc) = {}
                /\ \A i \in 1..Len(doc.sections) :
                    doc.sections[i].generated_text = Get(sds[i], "generated_text", <<>>)

\* A step after which more Sections have a task than before is a request for
\* one Section that the document had: nothing else of the document changes.
C21_StartsOnRequestOnly ==
    Cardinality(WithTask(document')) > Cardinality(WithTask(document)) =>
        \E i \in 1..Len(document.sections) :
            /\ document.sections[i].current_task = None
            /\ document' = [document EXCEPT
                    !.sections[i].main_point = document'.sections[i].main_point,
                    !.sections[i].user_text = document'.sections[i].user_text,
                    !.sections[i].current_task = RecordTask]

C22_DistinctIds ==
    \A i \in 1..Len(document.sections) : IdOnce(i)

\* Ids that no Section of the document has: none, a file's, the next uuid4().
C23_AbsentIds == (FileIds \cup {NoId, Uuid4(PresentIds, 1)}) \ PresentIds

\* get_section_context for an absent id gives the title and two empty
\* paragraphs, also as the result of the call that was made last.
C23_TitleOnly ==
    /\ \A id \in C23_AbsentIds :
        GetSectionContext(document, id) = <<document.title, <<>>, <<>>>>
    /\ (context # NoContext /\ context.id \notin PresentIds)
        => context.result = <<document.title, <<>>, <<>>>>

\* A get_section_context call changes nothing but its own result.
C23_CallFrame ==
    (context' # context /\ context' # NoContext) =>
        UNCHANGED <<document, clock, schedvars, genvars>>

\* C23. get_section_context called with an id that no Section of the
\* document has returns (title, "", "") with the document's title, raises
\* nothing and changes nothing.
C23_AbsentIdGivesTitle == []C23_TitleOnly /\ [][C23_CallFrame]_vars

\* The call was made with an absent id on a titled document that has
\* Sections with texts.
C23_Witness ==
    /\ context # NoContext
    /\ context.id \notin PresentIds
    /\ context.id # NoId
    /\ document.title # ""
    /\ Len(document.sections) >= 2
    /\ document.sections[1].user_text # <<>>
    /\ context.result = <<"T", <<>>, <<>>>>

----------------------------------------------------------------------------
\* Properties of new_paragraph and get_system_prompt

\* Text t is text s without the whitespace at its two ends.
C24_Trimmed(s, t) ==
    /\ t # <<>> => (t[1] \notin Whitespace /\ t[Len(t)] \notin Whitespace)
    /\ \E i \in 1..(Len(s) + 1) :
        /\ i + Len(t) - 1 <= Len(s)
        /\ t = SubSeq(s, i, i + Len(t) - 1)
        /\ \A k \in 1..Len(s) : (k < i \/ k >= i + Len(t)) => s[k] \in Whitespace

\* C24. new_paragraph returns the pipeline's result without its leading and
\* trailing whitespace when the result is text, and the result as it is when
\* it is not text; cleaning a cleaned result changes nothing.
C24_ResultCleaned ==
    (handler.pc = "responded" /\ handler.result.kind = "returned") =>
        LET raw == handler.raw
            got == [type |-> handler.result.type, value |-> handler.result.value]
        IN  /\ raw.type = "str" =>
                (got.type = "str" /\ C24_Trimmed(raw.value, got.value))
            /\ raw.type # "str" => got = raw
            /\ CleanedResult(got) = got

\* A text with whitespace at both ends and inside was returned.
C24_Witness ==
    /\ handler.pc = "responded"
    /\ handler.result.kind = "returned"
    /\ handler.raw = [type |-> "str", value |-> <<" ", "g", " ", "h">>]
    /\ handler.result.value = <<"g", " ", "h">>

\* The instruction written for a mode in get_system_prompt, lines 19-98.
C25_InstructionOf(mode) ==
    CASE mode = "ideas" -> IdeasInstruction
      [] mode = "rewrite" -> RewriteInstruction
      [] mode = "improve" -> ImproveInstruction
      [] mode = "proofread" -> ProofreadInstruction

\* C25. get_system_prompt returns an instruction text for every mode string
\* and raises for none; for ideas, rewrite, improve and proofread it returns
\* the instruction of that mode, and these four differ from each other.
C25_EveryModeHasInstruction ==
    /\ \A mode \in Modes : GetSystemPrompt(mode) # ""
    /\ \A m1 \in KnownModes, m2 \in KnownModes :
        m1 # m2 => GetSystemPrompt(m1) # GetSystemPrompt(m2)
    /\ handler.pc # "idle" =>
        /\ handler.system_prompt = GetSystemPrompt(handler.generation_mode)
        /\ handler.system_prompt # ""
        /\ handler.generation_mode \in KnownModes =>
            handler.system_prompt = C25_InstructionOf(handler.generation_mode)

\* new_paragraph was called with the mode improve.
C25_Witness ==
    /\ handler.pc = "responded"
    /\ handler.generation_mode = "improve"
    /\ handler.system_prompt = ImproveInstruction

----------------------------------------------------------------------------
\* Properties of loading and replacing the document

\* Section sec can have been made from the section dict sd.
C26_MadeFrom(sec, sd) ==
    /\ Get(sd, "id", NoId) \in {NoId, sec.id}
    /\ sec.main_point = Get(sd, "main_point", <<>>)
    /\ sec.user_text = Get(sd, "user_text", <<>>)
    /\ sec.generated_text = Get(sd, "generated_text", <<>>)

\* The Sections of from_dict(data) are the section dicts of data, each
\* once, in the sequence of their stored order values.
C26_InStoredOrder(data) ==
    LET sds == Get(data, "sections", <<>>)
        n == Len(sds)
        secs == FromDict(data, clock).sections
    IN  /\ Len(secs) = n
        /\ \E p \in [1..n -> 1..n] :
            /\ \A a \in 1..n, b \in 1..n : p[a] = p[b] => a = b
            /\ \A k \in 1..n : C26_MadeFrom(secs[k], sds[p[k]])
            /\ \A k \in 1..(n - 1) :
                Get(sds[p[k]], "order", 0) <= Get(sds[p[k + 1]], "order", 0)

\* C26. from_dict sequences the Sections by the order values stored in the
\* file, also when the file's sections array is not listed in increasing
\* order: the order field, not the array position, decides.
C26_StoredOrderDecides ==
    \A data \in Uploads \cup {ToDict(document)} :
        document.sections = FromDict(data, clock).sections
            => C26_InStoredOrder(data)

\* The step replaces the document.
C27_Replaced == removed # Sections /\ removed' = Sections

\* At the replacement every task that is under way is cancelled.
C27_CancelledAtReplacement ==
    C27_Replaced =>
        \A r \in Reqs :
            (Active(r) /\ SectionOf(r) \notin removed)
                => (task'[r].must_cancel \/ task'[r].outcome = "cancel")

\* After the replacement no generated_text is assigned and no task is created.
C27_QuietAfterReplacement ==
    removed = Sections =>
        /\ generated_text' = generated_text
        /\ writes' = writes
        /\ \A r \in Reqs : task[r].state = "none" => task'[r].state = "none"

\* C27. When the document is replaced (clear_document, or from_dict loading
\* another one), every task of its Sections that is under way is cancelled;
\* afterwards no task of an old Section writes generated_text and none is
\* started.
C27_ReplacementStopsGeneration ==
    [][C27_CancelledAtReplacement /\ C27_QuietAfterReplacement]_vars

----------------------------------------------------------------------------
\* Properties of the requests that read and edit a Section

\* The Section has tasks, and the try block of each has ended: with a
\* result, with a failure or with a cancellation.
C28_TasksOver(s) ==
    /\ \E r \in Reqs : SectionOf(r) = s /\ task[r].state # "none"
    /\ \A r \in Reqs :
        (SectionOf(r) = s /\ task[r].state # "none") => task[r].outcome # "none"

\* is_generating is true exactly when the Section's marker records a task
\* whose coroutine has not ended.
C28_ReportsRecordedTask ==
    \A s \in Sections :
        IsGenerating(s) <=> \E r \in Reqs : current_task[s] = r /\ Active(r)

\* C28. get_generated_text reports is_generating = true exactly when a task
\* of the Section is recorded and not done; once every task of the Section
\* has completed, failed or been cancelled, is_generating becomes false at
\* some time and, the clients sending no more requests, stays false.
C28_IsGeneratingSettles ==
    /\ []C28_ReportsRecordedTask
    /\ \A s \in Sections : [](C28_TasksOver(s) => <>[](~IsGenerating(s)))

\* Request r is a data-only update made in this step.
C29_Patches(r) == req[r].pc = "unused" /\ req'[r].pc \in {"patched", "notfound"}

\* What update_section_data_only does to a document: to the ones that from_dict makes of the
\* uploaded files, for the ids of their Sections and an unknown one.
C29_DocumentStep ==
    \A data \in Uploads, id \in FileIds \cup {NoId, 1}, t \in SectionTexts :
        LET doc == FromDict(data, clock)
            got == PatchSectionData(doc, id, t[1], t[2])
            i == IndexOf(doc.sections, id)
        IN  /\ [got EXCEPT !.sections = <<>>] = [doc EXCEPT !.sections = <<>>]
            /\ Len(got.sections) = Len(doc.sections)
            /\ \A k \in 1..Len(doc.sections) :
                IF k = i
                THEN got.sections[k] = [doc.sections[k] EXCEPT !.main_point = t[1],
                                                                 !.user_text = t[2]]
                ELSE got.sections[k] = doc.sections[k]
            /\ (\A k \in 1..Len(doc.sections) : doc.sections[k].id # id) => got = doc

\* What a data-only update does: to a document, and to the Sections and
\* their tasks.
C29_SectionStep ==
    \A r \in Reqs : C29_Patches(r) =>
        /\ C29_DocumentStep
        /\ task' = task /\ exec' = exec /\ ready' = ready
        /\ current_task' = current_task
        /\ generated_text' = generated_text /\ writes' = writes
        /\ lock_holder' = lock_holder /\ lock_waiters' = lock_waiters
        /\ paragraph_lock' = paragraph_lock
        /\ IF req'[r].pc = "patched"
           THEN /\ main_point' = [main_point EXCEPT ![req'[r].sec] = req'[r].mp]
                /\ user_text' = [user_text EXCEPT ![req'[r].sec] = req'[r].text]
           ELSE main_point' = main_point /\ user_text' = user_text

\* C29. The data-only update of a Section sets its main_point and user_text
\* to the given values, starts no task, makes no external call, cancels no
\* task, and leaves generated_text, order and the current-task marker as
\* they are; for an id that no Section has it changes nothing.
C29_DataOnlyUpdate == [][C29_SectionStep]_vars

\* A Section was edited while its task awaits the external call: the task is
\* not cancelled and the Section has the edit's user_text, not the task's.
C29_Witness ==
    \E r \in Reqs, q \in Reqs :
        /\ r < q
        /\ req[q].pc = "patched"
        /\ SectionOf(q) = SectionOf(r)
        /\ current_task[SectionOf(r)] = r
        /\ task[r].state = "running" /\ ~task[r].must_cancel
        /\ exec[r].state = "calling"
        /\ req[r].text # req[q].text
        /\ user_text[SectionOf(r)] = req[q].text

----------------------------------------------------------------------------
\* Properties of _paragraph_lock

\* The step in which the pipeline call of thread r raises frees the lock.
C30_ReleasedOnRaise ==
    \A r \in Reqs :
        (exec[r].state = "calling" /\ exec'[r].state = "err")
            => paragraph_lock' = None

\* The lock is held by a thread whose call is in progress, or by none: a
\* call that waits for the lock while no call is in progress can take it.
C30_HeldByCallInProgress ==
    /\ \A r \in Reqs : paragraph_lock = r => exec[r].state = "calling"
    /\ (\A r \in Reqs : exec[r].state # "calling") => ParagraphLockFree

\* C30. When the pipeline call inside new_paragraph raises, _paragraph_lock
\* is released: a failed generation never leaves the lock held, and a later
\* new_paragraph call, for any Section, can acquire it and run.
C30_LockReleasedOnFailure ==
    []C30_HeldByCallInProgress /\ [][C30_ReleasedOnRaise]_vars

\* After a call for one Section has failed, a call for the other Section and
\* a later call for the same Section are inside the lock or have ended.
C30_Witness ==
    \E r1 \in Reqs, r2 \in Reqs, r3 \in Reqs :
        /\ exec[r1].state = "err"
        /\ r1 < r2 /\ r2 < r3
        /\ SectionOf(r2) = SectionOf(r1) /\ SectionOf(r3) # SectionOf(r1)
        /\ task[r1].state = "finished"
        /\ exec[r2].state = "ok"
        /\ exec[r3].state = "calling"
        /\ paragraph_lock = r3
====
